---------------------------- MODULE Spec2Model ----------------------------
(***************************************************************************)
(* Electronic-nose backend: the device ingestion pipeline                  *)
(* (data_process.rs, arduino.rs), the broadcast relay to observers         *)
(* (server.rs) and the process that hosts both (main.rs).                  *)
(*                                                                         *)
(* Conventions                                                             *)
(*   Option<T>       a sequence of length <= 1: None = <<>>, Some(x) = <<x>> *)
(*   String          a sequence of one-character strings                   *)
(*   f32             an exact fraction <<num, den>> in lowest terms; the   *)
(*                   rounding of binary floating point is not modelled     *)
(*   serde_json Value a scalar [k, n, s] or an object (function from keys  *)
(*                   to scalars)                                           *)
(***************************************************************************)
EXTENDS Integers, Sequences, FiniteSets, TLC

VARIABLES
  \* a DataProcessor driven directly, as the unit tests drive it
  dp,         \* the DataProcessor
  dpIn,       \* the json values passed to process_sensor_data so far
  dpOut,      \* the Option<SensorData> each call returned
  \* device side (arduino.rs)
  arduino,    \* per device connection: "none", "running" or "done"
  processor,  \* per device connection: the DataProcessor handle_arduino owns
  lastLine,   \* the line handle_arduino handled last, and the connection it came from
  nlines,     \* number of lines handled by all device connections
  \* the broadcast channel (server.rs)
  log,        \* every message sent, in send order
  rx,         \* per receiver: its cursor into log, or NoRx once dropped
  \* observer side (server.rs): per accepted client
  session,    \* handle_client: "none", "running" or "returned"
  reader,     \* read task: "none", "running" or "done"
  writer,     \* write task: "none", "running" or "done"
  sock,       \* the connection: "none", "open" or "closed"
  subAt,      \* number of messages sent before tx.subscribe() returned
  received,   \* positions in log of the messages rx.recv() returned
  lagged,     \* whether rx.recv() returned RecvError::Lagged
  wire,       \* the packets write_all has written
  \* the process (main.rs)
  proc,       \* "running" or "exited"
  acceptErrs  \* accept errors the relay's accept loop has logged

dpVars == <<dp, dpIn, dpOut>>
ingestVars == <<arduino, processor, lastLine, nlines>>
busVars == <<log, rx>>
observerVars == <<session, reader, writer, sock, subAt, received, lagged, wire>>
procVars == <<proc, acceptErrs>>
vars == <<dpVars, ingestVars, busVars, observerVars, procVars>>

\* ------------------------------------------------------------------------
\* Bounds of the model
\* ------------------------------------------------------------------------
\* largest window a DataProcessor under test is constructed with
MaxWindow == 3
\* calls made on a DataProcessor under test
MaxCalls == MaxWindow + 1
\* device connections and observer connections accepted
MaxSessions == 2
MaxObservers == 2
\* lines handled by all device connections together
MaxLines == 3
\* capacity of the broadcast channel. TcpServer::new passes 100; the model
\* runs the same channel at a small capacity, and every statement about the
\* capacity is made relative to this value
BusCapacity == 1
\* messages sent on the channel
MaxPub == BusCapacity + 2
\* accept errors of the relay's listener
MaxAcceptErrs == 1
\* calls in the specifications that drive one function of the DataProcessor
MaxDirectCalls == 2
\* messages sent in the specification of connections that come and go
MaxSessionPub == 1

\* DataProcessor::new(3) in handle_arduino
WindowSize == 3

\* ------------------------------------------------------------------------
\* Option, strings, f32
\* ------------------------------------------------------------------------
None == <<>>
Some(x) == <<x>>
IsSome(o) == Len(o) = 1
Unwrap(o) == o[1]

RECURSIVE Gcd(_, _)
Gcd(a, b) == IF b = 0 THEN a ELSE Gcd(b, a % b)

\* the f32 with value n/d (d > 0, n >= 0)
F32(n, d) == LET g == Gcd(n, d) IN <<n \div g, d \div g>>
F32Add(x, y) == F32(x[1] * y[2] + y[1] * x[2], x[2] * y[2])
F32DivUsize(x, len) == F32(x[1], x[2] * len)

RECURSIVE F32Sum(_)
F32Sum(buffer) ==
  IF buffer = <<>> THEN F32(0, 1)
  ELSE F32Add(Head(buffer), F32Sum(Tail(buffer)))

\* ------------------------------------------------------------------------
\* serde_json::Value
\* ------------------------------------------------------------------------
JStr(s) == [k |-> "string", n |-> 0, s |-> s]
\* a Number written without fraction or exponent
JInt(n) == [k |-> "int", n |-> n, s |-> <<>>]
\* an integer Number of value hi * 2^16 + lo, 0 <= lo < 2^16, for values
\* that need more than 32 bits
Pow16 == 65536
JInt64(hi, lo) == [k |-> "int", hi |-> hi, lo |-> lo]
\* a Number written with a fraction (value n.0)
JFloat(n) == [k |-> "float", n |-> n, s |-> <<>>]
JNull == [k |-> "null", n |-> 0, s |-> <<>>]

Value_get(obj, key) == IF key \in DOMAIN obj THEN Some(obj[key]) ELSE None
Value_as_str(v) == IF v.k = "string" THEN Some(v.s) ELSE None

\* ------------------------------------------------------------------------
\* data_process.rs: SensorData
\* ------------------------------------------------------------------------
Channels == <<"co_m", "eth_m", "voc_m", "no2", "eth_gm", "voc_gm", "co_gm">>
ChannelSet == {Channels[i] : i \in 1..Len(Channels)}

\* the keys serde accepts for the field `timestamp`: the field's name and
\* its #[serde(alias = "timestamp")]
TimestampKeys == {"timestamp"}

\* u64 from a Number: a non-negative integer (no modelled value exceeds u64)
DeserU64(v) == v.k = "int" /\ v.n >= 0
DeserString(v) == v.k = "string"
DeserF32(v) == v.k \in {"int", "float"}

\* as if the channels were #[serde(default)]: a missing channel reads 0.0
SensorData_from_value_defaulting(obj) ==
  LET tkeys == TimestampKeys \cap DOMAIN obj
      chan(ch) == IF ch \in DOMAIN obj THEN F32(obj[ch].n, 1) ELSE F32(0, 1)
  IN
  IF /\ Cardinality(tkeys) = 1
     /\ \A key \in tkeys : DeserU64(obj[key])
     /\ "sample" \in DOMAIN obj /\ DeserString(obj["sample"])
     /\ \A ch \in ChannelSet : ch \in DOMAIN obj => DeserF32(obj[ch])
  THEN Some([timestamp |-> obj[CHOOSE key \in tkeys : TRUE].n,
             sample    |-> obj["sample"].s,
             co_m      |-> chan("co_m"),
             eth_m     |-> chan("eth_m"),
             voc_m     |-> chan("voc_m"),
             no2       |-> chan("no2"),
             eth_gm    |-> chan("eth_gm"),
             voc_gm    |-> chan("voc_gm"),
             co_gm     |-> chan("co_gm")])
  ELSE None

\* serde_json::from_value::<SensorData>: every field is required, keys that
\* are no field of the struct are ignored
SensorData_from_value(obj) ==
  LET tkeys == TimestampKeys \cap DOMAIN obj IN
  IF /\ Cardinality(tkeys) = 1
     /\ \A key \in tkeys : DeserU64(obj[key])
     /\ "sample" \in DOMAIN obj /\ DeserString(obj["sample"])
     /\ \A ch \in ChannelSet : ch \in DOMAIN obj /\ DeserF32(obj[ch])
  THEN Some([timestamp |-> obj[CHOOSE key \in tkeys : TRUE].n,
             sample    |-> obj["sample"].s,
             co_m      |-> F32(obj["co_m"].n, 1),
             eth_m     |-> F32(obj["eth_m"].n, 1),
             voc_m     |-> F32(obj["voc_m"].n, 1),
             no2       |-> F32(obj["no2"].n, 1),
             eth_gm    |-> F32(obj["eth_gm"].n, 1),
             voc_gm    |-> F32(obj["voc_gm"].n, 1),
             co_gm     |-> F32(obj["co_gm"].n, 1)])
  ELSE None


\* ------------------------------------------------------------------------
\* data_process.rs: normalize_sample_name
\* ------------------------------------------------------------------------
\* the letters sample labels are written with, lower case and upper case
LowerLetters == <<"a", "d", "e", "g", "i", "j", "k", "m", "n", "r", "s", "u", "x">>
UpperLetters == <<"A", "D", "E", "G", "I", "J", "K", "M", "N", "R", "S", "U", "X">>
Whitespace == {" ", "\t", "\n"}

IndexIn(c, letters) == CHOOSE i \in 1..Len(letters) : letters[i] = c
IsIn(c, letters) == \E i \in 1..Len(letters) : letters[i] = c
CharToLower(c) == IF IsIn(c, UpperLetters) THEN LowerLetters[IndexIn(c, UpperLetters)] ELSE c
\* U+017F, LATIN SMALL LETTER LONG S: a lower-case letter whose upper case is
\* "S", while the lower case of "S" is "s"
LongS == "U+017F"
CharToUpper(c) ==
  IF c = LongS THEN "S"
  ELSE IF IsIn(c, LowerLetters) THEN UpperLetters[IndexIn(c, LowerLetters)] ELSE c

str_to_lowercase(str) == [i \in 1..Len(str) |-> CharToLower(str[i])]

RECURSIVE TrimStart(_)
TrimStart(str) ==
  IF str # <<>> /\ Head(str) \in Whitespace THEN TrimStart(Tail(str)) ELSE str
RECURSIVE TrimEnd(_)
TrimEnd(str) ==
  IF str # <<>> /\ str[Len(str)] \in Whitespace
  THEN TrimEnd(SubSeq(str, 1, Len(str) - 1)) ELSE str

\* as if only the end of the line were trimmed
str_trim_end_only(str) == TrimEnd(str)

str_trim(str) == TrimEnd(TrimStart(str))

\* str::split_whitespace: the maximal runs of non-whitespace, in order
RECURSIVE SplitFrom(_, _, _)
SplitFrom(str, word, words) ==
  IF str = <<>> THEN (IF word = <<>> THEN words ELSE Append(words, word))
  ELSE IF Head(str) \in Whitespace
       THEN SplitFrom(Tail(str), <<>>, IF word = <<>> THEN words ELSE Append(words, word))
       ELSE SplitFrom(Tail(str), Append(word, Head(str)), words)
str_split_whitespace(str) == SplitFrom(str, <<>>, <<>>)

RECURSIVE JoinWords(_)
JoinWords(words) ==
  IF words = <<>> THEN <<>>
  ELSE IF Len(words) = 1 THEN words[1]
       ELSE words[1] \o <<" ">> \o JoinWords(Tail(words))

\* the closure of the fallback arm: first character upper-cased, rest kept
CapitalizeWord(word) ==
  IF word = <<>> THEN <<>> ELSE <<CharToUpper(Head(word))>> \o Tail(word)

S_kari == <<"k", "a", "r", "i">>
S_daun_kari == <<"d", "a", "u", "n", " ", "k", "a", "r", "i">>
S_Daun_Kari == <<"D", "a", "u", "n", " ", "K", "a", "r", "i">>
S_kemangi == <<"k", "e", "m", "a", "n", "g", "i">>
S_daun_kemangi == <<"d", "a", "u", "n", " ", "k", "e", "m", "a", "n", "g", "i">>
S_Daun_Kemangi == <<"D", "a", "u", "n", " ", "K", "e", "m", "a", "n", "g", "i">>
S_jeruk == <<"j", "e", "r", "u", "k">>
S_daun_jeruk == <<"d", "a", "u", "n", " ", "j", "e", "r", "u", "k">>
S_Daun_Jeruk == <<"D", "a", "u", "n", " ", "J", "e", "r", "u", "k">>
S_serai == <<"s", "e", "r", "a", "i">>
S_daun_serai == <<"d", "a", "u", "n", " ", "s", "e", "r", "a", "i">>
S_Daun_Serai == <<"D", "a", "u", "n", " ", "S", "e", "r", "a", "i">>

normalize_sample_name(name) ==
  LET key == str_to_lowercase(str_trim(name)) IN
  IF key \in {S_kari, S_daun_kari} THEN S_Daun_Kari
  ELSE IF key \in {S_kemangi, S_daun_kemangi} THEN S_Daun_Kemangi
  ELSE IF key \in {S_jeruk, S_daun_jeruk} THEN S_Daun_Jeruk
  ELSE IF key \in {S_serai, S_daun_serai} THEN S_Daun_Serai
  ELSE LET words == str_split_whitespace(name) IN
       JoinWords([i \in 1..Len(words) |-> CapitalizeWord(words[i])])

\* ------------------------------------------------------------------------
\* data_process.rs: DataProcessor
\* ------------------------------------------------------------------------
DataProcessor_new(window_size) ==
  [window_size |-> window_size,
   buffers |-> [co_m |-> <<>>, eth_m |-> <<>>, voc_m |-> <<>>, no2 |-> <<>>,
                eth_gm |-> <<>>, voc_gm |-> <<>>, co_gm |-> <<>>]]

\* evicts only once the buffer holds more than window_size values
update_buffer_late_evict(buffer, value, window_size) ==
  LET popped == IF Len(buffer) > window_size /\ buffer # <<>>
                THEN Tail(buffer) ELSE buffer
  IN Append(popped, value)

update_buffer(buffer, value, window_size) ==
  LET popped == IF Len(buffer) >= window_size /\ buffer # <<>>
                THEN Tail(buffer) ELSE buffer
  IN Append(popped, value)

calculate_average(buffer) ==
  IF buffer = <<>> THEN F32(0, 1)
  ELSE F32DivUsize(F32Sum(buffer), Len(buffer))

\* as if a full buffer gave up its newest value instead of its oldest
UpdatedBuffers_pop_back(p, data) ==
  LET upd(buffer, value) ==
        Append(IF Len(buffer) >= p.window_size /\ buffer # <<>>
               THEN SubSeq(buffer, 1, Len(buffer) - 1) ELSE buffer, value)
  IN [ch \in ChannelSet |-> upd(p.buffers[ch], data[ch])]

\* the buffers after the seven update_buffer calls
UpdatedBuffers(p, data) ==
  [co_m   |-> update_buffer(p.buffers.co_m, data.co_m, p.window_size),
   eth_m  |-> update_buffer(p.buffers.eth_m, data.eth_m, p.window_size),
   voc_m  |-> update_buffer(p.buffers.voc_m, data.voc_m, p.window_size),
   no2    |-> update_buffer(p.buffers.no2, data.no2, p.window_size),
   eth_gm |-> update_buffer(p.buffers.eth_gm, data.eth_gm, p.window_size),
   voc_gm |-> update_buffer(p.buffers.voc_gm, data.voc_gm, p.window_size),
   co_gm  |-> update_buffer(p.buffers.co_gm, data.co_gm, p.window_size)]

\* as if the smoothed reading were built without the timestamp of the frame
apply_moving_average_no_timestamp(p, data) ==
  LET buffers == UpdatedBuffers(p, data) IN
  [processor |-> [p EXCEPT !.buffers = buffers],
   result |-> [timestamp |-> 0,
               sample    |-> data.sample,
               co_m      |-> calculate_average(buffers.co_m),
               eth_m     |-> calculate_average(buffers.eth_m),
               voc_m     |-> calculate_average(buffers.voc_m),
               no2       |-> calculate_average(buffers.no2),
               eth_gm    |-> calculate_average(buffers.eth_gm),
               voc_gm    |-> calculate_average(buffers.voc_gm),
               co_gm     |-> calculate_average(buffers.co_gm)]]

\* returns the processor after the call and the reading it returns
apply_moving_average(p, data) ==
  LET buffers == UpdatedBuffers(p, data) IN
  [processor |-> [p EXCEPT !.buffers = buffers],
   result |-> [timestamp |-> data.timestamp,
               sample    |-> data.sample,
               co_m      |-> calculate_average(buffers.co_m),
               eth_m     |-> calculate_average(buffers.eth_m),
               voc_m     |-> calculate_average(buffers.voc_m),
               no2       |-> calculate_average(buffers.no2),
               eth_gm    |-> calculate_average(buffers.eth_gm),
               voc_gm    |-> calculate_average(buffers.voc_gm),
               co_gm     |-> calculate_average(buffers.co_gm)]]

\* as if a frame that fails to deserialize emptied the buffers
process_sensor_data_reset_on_error(p, json_value) ==
  LET parsed == SensorData_from_value(json_value) IN
  IF IsSome(parsed)
  THEN LET raw_data == [Unwrap(parsed) EXCEPT
                          !.sample = normalize_sample_name(Unwrap(parsed).sample)]
           smoothed == apply_moving_average(p, raw_data)
       IN [processor |-> smoothed.processor, result |-> Some(smoothed.result)]
  ELSE [processor |-> DataProcessor_new(p.window_size), result |-> None]

\* returns the processor after the call and the Option<SensorData> returned
process_sensor_data(p, json_value) ==
  LET parsed == SensorData_from_value(json_value) IN
  IF IsSome(parsed)
  THEN LET raw_data == [Unwrap(parsed) EXCEPT
                          !.sample = normalize_sample_name(Unwrap(parsed).sample)]
           smoothed == apply_moving_average(p, raw_data)
       IN [processor |-> smoothed.processor, result |-> Some(smoothed.result)]
  ELSE [processor |-> p, result |-> None]


\* ------------------------------------------------------------------------
\* data_process.rs: parse_arduino_json, process_status_message
\* ------------------------------------------------------------------------
T_data == <<"d", "a", "t", "a">>
T_status == <<"s", "t", "a", "t", "u", "s">>
T_motor == <<"m", "o", "t", "o", "r">>
T_calib_progress == <<"c", "a", "l", "i", "b", "_", "p", "r", "o", "g", "r", "e", "s", "s">>

\* A line of text is modelled by what serde_json::from_str makes of it:
\*   "empty"    the empty line
\*   "garbage"  text that is no JSON document
\*   "scalar"   a JSON document that is no object
\*   "object"   a JSON object, whose members are obj
EmptyObj == [key \in {} |-> JNull]
EmptyLine == [kind |-> "empty", obj |-> EmptyObj]
GarbageLine == [kind |-> "garbage", obj |-> EmptyObj]
ScalarLine == [kind |-> "scalar", obj |-> EmptyObj]
ObjectLine(obj) == [kind |-> "object", obj |-> obj]

\* as if a frame without a string `type` were taken for a status frame
parse_arduino_json_default_type(line) ==
  IF line.kind \in {"empty", "garbage"} THEN None
  ELSE LET t == Value_get(line.obj, "type") IN
       IF IsSome(t) /\ IsSome(Value_as_str(Unwrap(t)))
       THEN Some(<<Unwrap(Value_as_str(Unwrap(t))), line.obj>>)
       ELSE Some(<<T_status, line.obj>>)

\* Result<(String, Value), String>: Some(<<msg_type, json_value>>) or None
parse_arduino_json(line) ==
  IF line.kind \in {"empty", "garbage"} THEN None
  ELSE IF line.kind = "scalar" THEN None
  ELSE LET t == Value_get(line.obj, "type") IN
       IF IsSome(t) /\ IsSome(Value_as_str(Unwrap(t)))
       THEN Some(<<Unwrap(Value_as_str(Unwrap(t))), line.obj>>)
       ELSE None

\* Value::get(key).and_then(|v| v.as_str()).map(|s| s.to_string())
GetStr(obj, key) ==
  IF IsSome(Value_get(obj, key)) THEN Value_as_str(obj[key]) ELSE None
\* `i as i32` of an i64: the low 32 bits, read as a signed number
i64_as_i32(v) ==
  IF "hi" \in DOMAIN v
  THEN LET h == v.hi % Pow16 IN (IF h >= Pow16 \div 2 THEN h - Pow16 ELSE h) * Pow16 + v.lo
  ELSE v.n
\* Value::get(key).and_then(|v| v.as_i64()).map(|i| i as i32)
GetI32(obj, key) ==
  IF IsSome(Value_get(obj, key)) /\ obj[key].k = "int"
  THEN Some(i64_as_i32(obj[key])) ELSE None

\* as if every field found in the payload were taken over, whatever the type
process_status_message_all_groups(json_value, msg_type) ==
  [msg_type |-> msg_type,
   status |-> GetStr(json_value, "status"), message |-> GetStr(json_value, "msg"),
   motor |-> GetStr(json_value, "motor"), speed |-> GetI32(json_value, "speed"),
   current |-> GetI32(json_value, "current"), total |-> GetI32(json_value, "total")]

process_status_message(json_value, msg_type) ==
  LET status_msg == [msg_type |-> msg_type, status |-> None, message |-> None,
                     motor |-> None, speed |-> None, current |-> None, total |-> None]
  IN IF msg_type = T_status
     THEN [status_msg EXCEPT !.status = GetStr(json_value, "status"),
                             !.message = GetStr(json_value, "msg")]
     ELSE IF msg_type = T_motor
     THEN [status_msg EXCEPT !.motor = GetStr(json_value, "motor"),
                             !.speed = GetI32(json_value, "speed")]
     ELSE IF msg_type = T_calib_progress
     THEN [status_msg EXCEPT !.current = GetI32(json_value, "current"),
                             !.total = GetI32(json_value, "total")]
     ELSE status_msg

\* ------------------------------------------------------------------------
\* server.rs: Message
\* ------------------------------------------------------------------------
Message_SensorData(data) == [tag |-> "SensorData", data |-> Some(data), status |-> None, cmd |-> <<>>]
Message_Status(status) == [tag |-> "Status", data |-> None, status |-> Some(status), cmd |-> <<>>]
Message_Command(cmd) == [tag |-> "Command", data |-> None, status |-> None, cmd |-> cmd]

\* ------------------------------------------------------------------------
\* arduino.rs: the body of handle_arduino's loop for one line
\* ------------------------------------------------------------------------
\* as if the arm for status frames were the catch-all arm
handle_arduino_line_catch_all(p, line) ==
  IF line.kind = "empty" THEN [processor |-> p, send |-> None]
  ELSE LET parsed == parse_arduino_json(line) IN
    IF ~IsSome(parsed) THEN [processor |-> p, send |-> None]
    ELSE LET msg_type == Unwrap(parsed)[1]
             json_value == Unwrap(parsed)[2]
         IN IF msg_type = T_data
            THEN LET r == process_sensor_data(p, json_value) IN
                 IF IsSome(r.result)
                 THEN [processor |-> r.processor,
                       send |-> Some(Message_SensorData(Unwrap(r.result)))]
                 ELSE [processor |-> r.processor, send |-> None]
            ELSE [processor |-> p,
                  send |-> Some(Message_Status(process_status_message(json_value, msg_type)))]

\* returns the processor after the line and the message passed to tx.send,
\* if any
handle_arduino_line(p, line) ==
  IF line.kind = "empty" THEN [processor |-> p, send |-> None]
  ELSE LET parsed == parse_arduino_json(line) IN
    IF ~IsSome(parsed) THEN [processor |-> p, send |-> None]
    ELSE LET msg_type == Unwrap(parsed)[1]
             json_value == Unwrap(parsed)[2]
         IN IF msg_type = T_data
            THEN LET r == process_sensor_data(p, json_value) IN
                 IF IsSome(r.result)
                 THEN [processor |-> r.processor,
                       send |-> Some(Message_SensorData(Unwrap(r.result)))]
                 ELSE [processor |-> r.processor, send |-> None]
            ELSE IF msg_type \in {T_status, T_motor, T_calib_progress}
            THEN [processor |-> p,
                  send |-> Some(Message_Status(process_status_message(json_value, msg_type)))]
            ELSE [processor |-> p, send |-> None]

\* ------------------------------------------------------------------------
\* Device frames
\* ------------------------------------------------------------------------
ChannelOffset(ch) == (CHOOSE i \in 1..Len(Channels) : Channels[i] = ch) - 1

\* {"type":"data", <tkey>:t, "sample":label, "co_m":a.0, "eth_m":(a+1).0, ...}
DataObject(a, label, tkey, t) ==
  [key \in {"type", "sample", tkey} \cup ChannelSet |->
     IF key = "type" THEN JStr(T_data)
     ELSE IF key = "sample" THEN JStr(label)
     ELSE IF key = tkey THEN JInt(t)
     ELSE JFloat(a + ChannelOffset(key))]

Without(obj, key) == [k \in DOMAIN obj \ {key} |-> obj[k]]
With(obj, key, v) == [k \in DOMAIN obj \cup {key} |-> IF k = key THEN v ELSE obj[k]]

ValidFrames == {DataObject(a, S_kari, "timestamp", 1000 + a) : a \in {2, 4, 6, 8}}
\* the frame of tests::test_parse_sensor_data (timestamp under "ts")
TsFrame == DataObject(2, S_kari, "ts", 1496921)

ReadingFields == ChannelSet \cup {"timestamp", "sample"}
Frame4 == DataObject(4, S_kari, "timestamp", 1004)

\* data frames with one field of the reading missing
MissingFieldFrames == {Without(Frame4, f) : f \in ReadingFields}
\* data frames with one field of the reading of the wrong type
WrongTypeFrames ==
  {With(Frame4, ch, JStr(<<"4">>)) : ch \in ChannelSet}
    \cup {With(Frame4, "voc_m", JNull),
          With(Frame4, "timestamp", JFloat(1004)),
          With(Frame4, "timestamp", JInt(-1)),
          With(Frame4, "timestamp", JStr(<<"1">>)),
          With(Frame4, "sample", JInt(7)),
          With(Frame4, "sample", JNull)}
\* a valid frame with another label, other values and another timestamp
FrameX == DataObject(2, <<"x">>, "timestamp", 1002)
\* valid frames with a channel written as an integer and with a key that is
\* no field of SensorData
OtherValidFrames == {With(Frame4, "co_m", JInt(6)), With(Frame4, "extra", JInt(1))}

S_ok == <<"o", "k">>
S_up == <<"u", "p">>
S_M1 == <<"M", "1">>
T_foo == <<"f", "o", "o">>
StatusFrame == [type |-> JStr(T_status), status |-> JStr(S_ok), msg |-> JStr(S_up)]
MotorFrame == [type |-> JStr(T_motor), motor |-> JStr(S_M1), speed |-> JInt(50)]
CalibFrame == [type |-> JStr(T_calib_progress), current |-> JInt(5), total |-> JInt(10)]
\* frames whose discriminator is none of the four known ones
UnknownTypeFrames == {[type |-> JStr(T_foo)], With(Frame4, "type", JStr(T_foo)),
                      With(StatusFrame, "type", JStr(<<>>))}
\* objects without a string `type`
UntypedFrames == {Without(Frame4, "type"), With(Frame4, "type", JInt(1))}

\* the lines a device connection may carry
IngestLines ==
  {ObjectLine(obj) : obj \in {Frame4, FrameX, TsFrame, StatusFrame, MotorFrame, CalibFrame}
                              \cup MissingFieldFrames
                              \cup WrongTypeFrames \cup UnknownTypeFrames
                              \cup UntypedFrames}
    \cup {EmptyLine, GarbageLine, ScalarLine}

\* the lines a device connection carries while the relay is observed
RelayLines == {ObjectLine(Frame4), ObjectLine(StatusFrame)}
\* the device connections accepted while the relay is observed
RelaySessions == {1}

\* the lines an observer connection may send
S_go == <<"g", "o">>
ObserverLines == {<<"\n">>, S_go \o <<"\n">>, <<" ">> \o S_go \o <<" ", "\n">>}

\* ------------------------------------------------------------------------
\* The broadcast channel (tokio::sync::broadcast as server.rs uses it)
\* ------------------------------------------------------------------------
Sessions == 1..MaxSessions
Observers == 1..MaxObservers
NoProcessor == DataProcessor_new(0)
NoRx == -1
\* receiver 0 is the one TcpServer::new returns; run_normal_mode holds it in
\* `_rx` and never receives from it
Receivers == {0} \cup Observers

\* as if send waited, like a bounded mpsc sender, until every receiver has
\* room for one more message
tx_send_ready_bounded(rxs, tail) ==
  \A r \in DOMAIN rxs : rxs[r] # NoRx => tail - rxs[r] < BusCapacity

\* Sender::send is synchronous: when the channel is full it takes the slot
\* of the oldest message and it never waits for a receiver
tx_send_ready(rxs, tail) == TRUE

\* `let _ = tx.send(msg)`: the message is appended, the Result is discarded
tx_send(lg, msg) == Append(lg, msg)

\* as if a new receiver started at the oldest retained message
tx_subscribe_replay(tail) == IF tail > BusCapacity THEN tail - BusCapacity ELSE 0

\* Sender::subscribe: the new receiver starts at the current tail
tx_subscribe(tail) == tail

\* as if a message were retained only until the slowest receiver is
\* BusCapacity behind: every receiver lags when the slowest one does
rx_recv_slowest(rxs, r, tail) ==
  LET live == {q \in DOMAIN rxs : rxs[q] # NoRx}
      slowest == CHOOSE q \in live : \A q2 \in live : rxs[q] <= rxs[q2]
  IN IF tail - rxs[slowest] > BusCapacity /\ rxs[r] < tail
     THEN [kind |-> "lagged", next |-> tail]
     ELSE IF rxs[r] < tail THEN [kind |-> "ok", next |-> rxs[r] + 1]
     ELSE [kind |-> "pending", next |-> rxs[r]]

\* Receiver::recv of receiver r when tail messages have been sent: the next
\* message, Lagged when that message is no longer retained (the cursor then
\* moves to the oldest retained message), or pending when there is none
rx_recv(rxs, r, tail) ==
  IF tail - rxs[r] > BusCapacity THEN [kind |-> "lagged", next |-> tail - BusCapacity]
  ELSE IF rxs[r] < tail THEN [kind |-> "ok", next |-> rxs[r] + 1]
  ELSE [kind |-> "pending", next |-> rxs[r]]

\* ------------------------------------------------------------------------
\* Initial values of each part of the state
\* ------------------------------------------------------------------------
NoLine == [s |-> 0, line |-> EmptyLine]

DpIdle == dp = DataProcessor_new(0) /\ dpIn = <<>> /\ dpOut = <<>>
IngestIdle ==
  /\ arduino = [s \in Sessions |-> "none"]
  /\ processor = [s \in Sessions |-> NoProcessor]
  /\ lastLine = NoLine
  /\ nlines = 0
\* TcpServer::new: an empty channel and its first receiver
BusIdle == log = <<>> /\ rx = [r \in Receivers |-> IF r = 0 THEN 0 ELSE NoRx]
ObserversIdle ==
  /\ session = [o \in Observers |-> "none"]
  /\ reader = [o \in Observers |-> "none"]
  /\ writer = [o \in Observers |-> "none"]
  /\ sock = [o \in Observers |-> "none"]
  /\ subAt = [o \in Observers |-> 0]
  /\ received = [o \in Observers |-> <<>>]
  /\ lagged = [o \in Observers |-> FALSE]
  /\ wire = [o \in Observers |-> <<>>]
\* both listeners are bound
ProcIdle == proc = "running" /\ acceptErrs = 0

\* ------------------------------------------------------------------------
\* arduino.rs: start_arduino_receiver, handle_arduino
\* ------------------------------------------------------------------------
\* as if the processor were created once, before the accept loop, and handed
\* on from one connection to the next
ArduinoAccept_shared_processor(s) ==
  /\ proc = "running"
  /\ arduino[s] = "none"
  /\ \A t \in Sessions : t < s => arduino[t] # "none"
  /\ arduino' = [arduino EXCEPT ![s] = "running"]
  /\ processor' = [processor EXCEPT ![s] = IF s > 1 /\ arduino[s - 1] = "running"
                                            THEN processor[s - 1]
                                            ELSE DataProcessor_new(WindowSize)]
  /\ UNCHANGED <<lastLine, nlines, dpVars, busVars, observerVars, procVars>>

\* listener.accept() returns a connection: handle_arduino is spawned
ArduinoAccept(s) ==
  /\ proc = "running"
  /\ arduino[s] = "none"
  /\ \A t \in Sessions : t < s => arduino[t] # "none"
  /\ arduino' = [arduino EXCEPT ![s] = "running"]
  /\ processor' = [processor EXCEPT ![s] = DataProcessor_new(WindowSize)]
  /\ UNCHANGED <<lastLine, nlines, dpVars, busVars, observerVars, procVars>>

\* listener.accept() returns an error: `?` returns it from
\* start_arduino_receiver, run_normal_mode and main
\* start_arduino_receiver, run_normal_mode and main: the process ends and
\* every task, connection and channel ends with it
ArduinoAcceptError ==
  /\ proc = "running"
  /\ proc' = "exited"
  /\ acceptErrs' = 0
  /\ arduino' = [s \in Sessions |-> "none"]
  /\ processor' = [s \in Sessions |-> NoProcessor]
  /\ lastLine' = NoLine
  /\ nlines' = 0
  /\ log' = <<>>
  /\ rx' = [r \in Receivers |-> NoRx]
  /\ session' = [o \in Observers |-> "none"]
  /\ reader' = [o \in Observers |-> "none"]
  /\ writer' = [o \in Observers |-> "none"]
  /\ sock' = [o \in Observers |-> "none"]
  /\ subAt' = [o \in Observers |-> 0]
  /\ received' = [o \in Observers |-> <<>>]
  /\ lagged' = [o \in Observers |-> FALSE]
  /\ wire' = [o \in Observers |-> <<>>]
  /\ UNCHANGED dpVars

\* as if the message of a line were placed before the messages published
\* earlier
HandleArduinoLine_publishes_first(s, line) ==
  /\ proc = "running"
  /\ arduino[s] = "running"
  /\ nlines < MaxLines /\ Len(log) < MaxPub
  /\ tx_send_ready(rx, Len(log))
  /\ LET r == handle_arduino_line(processor[s], line) IN
       /\ processor' = [processor EXCEPT ![s] = r.processor]
       /\ log' = IF IsSome(r.send) THEN <<Unwrap(r.send)>> \o log ELSE log
  /\ lastLine' = [s |-> s, line |-> line]
  /\ nlines' = nlines + 1
  /\ UNCHANGED <<arduino, rx, dpVars, observerVars, procVars>>

\* lines.next_line() yields a line
HandleArduinoLine(s, line) ==
  /\ proc = "running"
  /\ arduino[s] = "running"
  /\ nlines < MaxLines /\ Len(log) < MaxPub
  /\ tx_send_ready(rx, Len(log))
  /\ LET r == handle_arduino_line(processor[s], line) IN
       /\ processor' = [processor EXCEPT ![s] = r.processor]
       /\ log' = IF IsSome(r.send) THEN tx_send(log, Unwrap(r.send)) ELSE log
  /\ lastLine' = [s |-> s, line |-> line]
  /\ nlines' = nlines + 1
  /\ UNCHANGED <<arduino, rx, dpVars, observerVars, procVars>>

\* as if the end of one device connection ended every device connection
ArduinoDisconnect_ends_all(s) ==
  /\ proc = "running"
  /\ arduino[s] = "running"
  /\ arduino' = [t \in Sessions |-> IF arduino[t] = "running" THEN "done" ELSE arduino[t]]
  /\ processor' = [t \in Sessions |-> IF arduino[t] = "running" THEN NoProcessor
                                       ELSE processor[t]]
  /\ UNCHANGED <<lastLine, nlines, dpVars, busVars, observerVars, procVars>>

\* lines.next_line() yields None (the device closed) or an error
ArduinoDisconnect(s) ==
  /\ proc = "running"
  /\ arduino[s] = "running"
  /\ arduino' = [arduino EXCEPT ![s] = "done"]
  /\ processor' = [processor EXCEPT ![s] = NoProcessor]
  /\ UNCHANGED <<lastLine, nlines, dpVars, busVars, observerVars, procVars>>

\* ------------------------------------------------------------------------
\* server.rs: TcpServer::start, handle_client
\* ------------------------------------------------------------------------
\* as if handle_client spawned the read task only
RelayAccept_no_write_task(o) ==
  /\ proc = "running"
  /\ session[o] = "none"
  /\ \A q \in Observers : q < o => session[q] # "none"
  /\ rx' = [rx EXCEPT ![o] = tx_subscribe(Len(log))]
  /\ subAt' = [subAt EXCEPT ![o] = Len(log)]
  /\ session' = [session EXCEPT ![o] = "running"]
  /\ reader' = [reader EXCEPT ![o] = "running"]
  /\ writer' = [writer EXCEPT ![o] = "none"]
  /\ sock' = [sock EXCEPT ![o] = "open"]
  /\ UNCHANGED <<log, received, lagged, wire, dpVars, ingestVars, procVars>>

\* listener.accept() returns a connection: subscribe, spawn handle_client,
\* which spawns the read task and the write task
RelayAccept(o) ==
  /\ proc = "running"
  /\ session[o] = "none"
  /\ \A q \in Observers : q < o => session[q] # "none"
  /\ rx' = [rx EXCEPT ![o] = tx_subscribe(Len(log))]
  /\ subAt' = [subAt EXCEPT ![o] = Len(log)]
  /\ session' = [session EXCEPT ![o] = "running"]
  /\ reader' = [reader EXCEPT ![o] = "running"]
  /\ writer' = [writer EXCEPT ![o] = "running"]
  /\ sock' = [sock EXCEPT ![o] = "open"]
  /\ UNCHANGED <<log, received, lagged, wire, dpVars, ingestVars, procVars>>

\* as if the error were returned with `?`, as in start_arduino_receiver
RelayAcceptError_returns ==
  /\ proc = "running"
  /\ acceptErrs < MaxAcceptErrs
  /\ acceptErrs' = acceptErrs + 1
  /\ proc' = "exited"
  /\ UNCHANGED <<dpVars, ingestVars, busVars, observerVars>>

\* listener.accept() returns an error: it is printed and the loop goes on
RelayAcceptError ==
  /\ proc = "running"
  /\ acceptErrs < MaxAcceptErrs
  /\ acceptErrs' = acceptErrs + 1
  /\ UNCHANGED <<proc, dpVars, ingestVars, busVars, observerVars>>

\* as if a Command were written to the observer like a Status
format_packet_commands_too(msg) ==
  IF msg.tag = "SensorData" THEN Some([prefix |-> "DATA", msg |-> msg])
  ELSE Some([prefix |-> "STATUS", msg |-> msg])

\* the packet the write task formats for a message; None where it continues
format_packet(msg) ==
  IF msg.tag = "SensorData" THEN Some([prefix |-> "DATA", msg |-> msg])
  ELSE IF msg.tag = "Status" THEN Some([prefix |-> "STATUS", msg |-> msg])
  ELSE None

\* read task: read_line returns Ok(n), n > 0
ReaderLine(o, line) ==
  /\ proc = "running"
  /\ reader[o] = "running"
  /\ sock[o] = "open"
  /\ Len(log) < MaxPub
  /\ tx_send_ready(rx, Len(log))
  /\ LET cmd == str_trim(line) IN
       log' = IF cmd # <<>> THEN tx_send(log, Message_Command(cmd)) ELSE log
  /\ UNCHANGED <<rx, dpVars, ingestVars, observerVars, procVars>>

\* as if a receiver were handed the newest message it has not had yet, and
\* the older ones after it
WriterStep_newest_first(o) ==
  /\ proc = "running"
  /\ writer[o] = "running"
  /\ LET got == {received[o][i] : i \in 1..Len(received[o])}
         waiting == ((subAt[o] + 1)..Len(log)) \ got
         r == IF waiting = {} THEN [kind |-> "pending", next |-> rx[o]]
              ELSE [kind |-> "ok", next |-> CHOOSE i \in waiting : \A j \in waiting : i >= j]
     IN
       /\ r.kind # "pending"
       /\ IF r.kind = "lagged"
          THEN \* recv returned Err(Lagged): the loop ends, rx is dropped
               /\ writer' = [writer EXCEPT ![o] = "done"]
               /\ session' = [session EXCEPT ![o] = "returned"]
               /\ rx' = [rx EXCEPT ![o] = NoRx]
               /\ lagged' = [lagged EXCEPT ![o] = TRUE]
               /\ UNCHANGED <<received, wire>>
          ELSE LET packet == format_packet(log[r.next]) IN
               /\ received' = [received EXCEPT ![o] = Append(@, r.next)]
               /\ UNCHANGED lagged
               /\ IF ~IsSome(packet)
                  THEN \* Message::Command(_) => continue
                       /\ rx' = [rx EXCEPT ![o] = r.next]
                       /\ UNCHANGED <<writer, session, wire>>
                  ELSE IF sock[o] = "closed"
                  THEN \* write_all fails: break, rx is dropped
                       /\ writer' = [writer EXCEPT ![o] = "done"]
                       /\ session' = [session EXCEPT ![o] = "returned"]
                       /\ rx' = [rx EXCEPT ![o] = NoRx]
                       /\ UNCHANGED wire
                  ELSE /\ wire' = [wire EXCEPT ![o] = Append(@, Unwrap(packet))]
                       /\ rx' = [rx EXCEPT ![o] = r.next]
                       /\ UNCHANGED <<writer, session>>
  /\ UNCHANGED <<log, reader, sock, subAt, dpVars, ingestVars, procVars>>

\* write task: one turn of `while let Ok(msg) = rx.recv().await { .. }`;
\* when the task ends, select! in handle_client completes and it returns
WriterStep(o) ==
  /\ proc = "running"
  /\ writer[o] = "running"
  /\ LET r == rx_recv(rx, o, Len(log)) IN
       /\ r.kind # "pending"
       /\ IF r.kind = "lagged"
          THEN \* recv returned Err(Lagged): the loop ends, rx is dropped
               /\ writer' = [writer EXCEPT ![o] = "done"]
               /\ session' = [session EXCEPT ![o] = "returned"]
               /\ rx' = [rx EXCEPT ![o] = NoRx]
               /\ lagged' = [lagged EXCEPT ![o] = TRUE]
               /\ UNCHANGED <<received, wire>>
          ELSE LET packet == format_packet(log[r.next]) IN
               /\ received' = [received EXCEPT ![o] = Append(@, r.next)]
               /\ UNCHANGED lagged
               /\ IF ~IsSome(packet)
                  THEN \* Message::Command(_) => continue
                       /\ rx' = [rx EXCEPT ![o] = r.next]
                       /\ UNCHANGED <<writer, session, wire>>
                  ELSE IF sock[o] = "closed"
                  THEN \* write_all fails: break, rx is dropped
                       /\ writer' = [writer EXCEPT ![o] = "done"]
                       /\ session' = [session EXCEPT ![o] = "returned"]
                       /\ rx' = [rx EXCEPT ![o] = NoRx]
                       /\ UNCHANGED wire
                  ELSE /\ wire' = [wire EXCEPT ![o] = Append(@, Unwrap(packet))]
                       /\ rx' = [rx EXCEPT ![o] = r.next]
                       /\ UNCHANGED <<writer, session>>
  /\ UNCHANGED <<log, reader, sock, subAt, dpVars, ingestVars, procVars>>

\* the client closes the connection, or the connection breaks: in the read
\* task read_line returns Ok(0) or Err and the task ends; select! in
\* handle_client completes and handle_client returns. Dropping the other
\* JoinHandle detaches the task it names, it does not stop it
ClientClose(o) ==
  /\ proc = "running"
  /\ sock[o] = "open"
  /\ sock' = [sock EXCEPT ![o] = "closed"]
  /\ reader' = [reader EXCEPT ![o] = "done"]
  /\ session' = [session EXCEPT ![o] = "returned"]
  /\ UNCHANGED <<writer, subAt, received, lagged, wire,
                 dpVars, ingestVars, busVars, procVars>>

\* ------------------------------------------------------------------------
\* The backend in normal mode: device receiver, relay and observers
\* ------------------------------------------------------------------------
Init == DpIdle /\ IngestIdle /\ BusIdle /\ ObserversIdle /\ ProcIdle

Next ==
  \/ \E s \in RelaySessions : ArduinoAccept(s)
  \/ ArduinoAcceptError
  \/ \E s \in RelaySessions : \E line \in RelayLines : HandleArduinoLine(s, line)
  \/ \E s \in RelaySessions : ArduinoDisconnect(s)
  \/ \E o \in Observers : RelayAccept(o)
  \/ RelayAcceptError
  \/ \E o \in Observers : \E line \in ObserverLines : ReaderLine(o, line)
  \/ \E o \in Observers : WriterStep(o)
  \/ \E o \in Observers : ClientClose(o)

Spec == Init /\ [][Next]_vars

\* ------------------------------------------------------------------------
\* The same, with listeners whose accept does not fail and a device that
\* stays connected and sends readings: the channel carries SensorData
\* from the device and Commands from the observers
\* ------------------------------------------------------------------------
NextRelay ==
  \/ \E s \in RelaySessions : ArduinoAccept(s)
  \/ \E s \in RelaySessions : HandleArduinoLine(s, ObjectLine(Frame4))
  \/ \E o \in Observers : RelayAccept(o)
  \/ \E o \in Observers : \E line \in ObserverLines : ReaderLine(o, line)
  \/ \E o \in Observers : WriterStep(o)
  \/ \E o \in Observers : ClientClose(o)

SpecRelay == Init /\ [][NextRelay]_vars

\* ------------------------------------------------------------------------
\* The same, with a device that sends readings and status frames: the
\* channel carries all three variants of Message
\* ------------------------------------------------------------------------
NextRelayStatus ==
  \/ \E s \in RelaySessions : ArduinoAccept(s)
  \/ \E s \in RelaySessions : \E line \in RelayLines : HandleArduinoLine(s, line)
  \/ \E o \in Observers : RelayAccept(o)
  \/ \E o \in Observers : \E line \in ObserverLines : ReaderLine(o, line)
  \/ \E o \in Observers : WriterStep(o)
  \/ \E o \in Observers : ClientClose(o)

SpecRelayStatus == Init /\ [][NextRelayStatus]_vars

\* ------------------------------------------------------------------------
\* The same for two observers, with write tasks that the runtime keeps
\* polling: a write task whose recv is ready is eventually run
\* ------------------------------------------------------------------------
FairObservers == {1, 2}

NextRelayFair ==
  \/ \E s \in RelaySessions : ArduinoAccept(s)
  \/ \E s \in RelaySessions : \E line \in RelayLines : HandleArduinoLine(s, line)
  \/ \E o \in FairObservers : RelayAccept(o)
  \/ \E o \in FairObservers : \E line \in ObserverLines : ReaderLine(o, line)
  \/ \E o \in FairObservers : WriterStep(o)
  \/ \E o \in FairObservers : ClientClose(o)

SpecRelayFair ==
  Init /\ [][NextRelayFair]_vars /\ \A o \in FairObservers : WF_vars(WriterStep(o))

\* ------------------------------------------------------------------------
\* The device receiver alone, fed every kind of line
\* ------------------------------------------------------------------------
NextIngest ==
  \/ \E s \in Sessions : ArduinoAccept(s)
  \/ \E s \in Sessions : \E line \in IngestLines : HandleArduinoLine(s, line)
  \/ \E s \in Sessions : ArduinoDisconnect(s)

SpecIngest == Init /\ [][NextIngest]_vars

\* ------------------------------------------------------------------------
\* One device connection, fed every kind of line
\* ------------------------------------------------------------------------
NextLines ==
  \/ \E s \in RelaySessions : ArduinoAccept(s)
  \/ \E s \in RelaySessions : \E line \in IngestLines : HandleArduinoLine(s, line)
  \/ \E s \in RelaySessions : ArduinoDisconnect(s)

SpecLines == Init /\ [][NextLines]_vars

\* ------------------------------------------------------------------------
\* Device connections that come and go and send valid readings
\* ------------------------------------------------------------------------
ReadingLines == {ObjectLine(Frame4), ObjectLine(FrameX)}

NextReconnect ==
  \/ \E s \in Sessions : ArduinoAccept(s)
  \/ \E s \in Sessions : \E line \in ReadingLines : HandleArduinoLine(s, line)
  \/ \E s \in Sessions : ArduinoDisconnect(s)

SpecReconnect == Init /\ [][NextReconnect]_vars

\* ------------------------------------------------------------------------
\* Device connections and observers that come and go, with few messages
\* ------------------------------------------------------------------------
NextSessions ==
  \/ \E s \in Sessions : ArduinoAccept(s)
  \/ \E s \in Sessions :
       Len(log) < MaxSessionPub /\ HandleArduinoLine(s, ObjectLine(StatusFrame))
  \/ \E s \in Sessions : ArduinoDisconnect(s)
  \/ \E o \in Observers : RelayAccept(o)
  \/ RelayAcceptError
  \/ \E o \in Observers :
       Len(log) < MaxSessionPub /\ ReaderLine(o, S_go \o <<"\n">>)
  \/ \E o \in Observers : WriterStep(o)
  \/ \E o \in Observers : ClientClose(o)

SpecSessions == Init /\ [][NextSessions]_vars

\* ------------------------------------------------------------------------
\* A DataProcessor driven directly (tests of data_process.rs)
\* ------------------------------------------------------------------------
ProcessorInputs ==
  ValidFrames \cup OtherValidFrames \cup {FrameX, TsFrame, Without(Frame4, "no2")}

InitProcessor ==
  /\ \E w \in 1..MaxWindow : dp = DataProcessor_new(w)
  /\ dpIn = <<>> /\ dpOut = <<>>
  /\ IngestIdle /\ BusIdle /\ ObserversIdle /\ ProcIdle

CallProcessSensorData(json_value) ==
  /\ Len(dpIn) < MaxCalls
  /\ LET r == process_sensor_data(dp, json_value) IN
       /\ dp' = r.processor
       /\ dpIn' = Append(dpIn, json_value)
       /\ dpOut' = Append(dpOut, r.result)
  /\ UNCHANGED <<ingestVars, busVars, observerVars, procVars>>

NextProcessor == \E json_value \in ProcessorInputs : CallProcessSensorData(json_value)

SpecProcessor == InitProcessor /\ [][NextProcessor]_vars

\* ------------------------------------------------------------------------
\* A DataProcessor fed frames that differ in their sample label (tests of
\* normalize_sample_name in data_process.rs)
\* ------------------------------------------------------------------------
str_to_uppercase(str) == [i \in 1..Len(str) |-> CharToUpper(str[i])]
S_daun == <<"d", "a", "u", "n">>
S_Daun == <<"D", "a", "u", "n">>
\* the short names of the four known samples
Aliases == {S_kari, S_kemangi, S_jeruk, S_serai}
\* a short name written in lower case, in upper case and capitalized, and
\* the long name written in lower case and capitalized
CaseVariants(alias) ==
  {alias, str_to_uppercase(alias), CapitalizeWord(alias),
   S_daun \o <<" ">> \o alias, S_Daun \o <<" ">> \o CapitalizeWord(alias)}
Labels ==
  UNION {CaseVariants(alias) : alias \in Aliases}
    \cup {<<>>, <<"x">>, <<" ">> \o S_kari \o <<"\t">>,
          S_daun \o <<" ", " ">> \o S_kari,
          <<"x", " ", " ", "k", "a", "r", "i">>,
          <<LongS>> \o Tail(S_serai)}
LabelFrame(label) == DataObject(2, label, "timestamp", 1002)

InitLabels ==
  /\ dp = DataProcessor_new(WindowSize)
  /\ dpIn = <<>> /\ dpOut = <<>>
  /\ IngestIdle /\ BusIdle /\ ObserversIdle /\ ProcIdle

CallWithLabel(label) ==
  /\ Len(dpIn) < MaxDirectCalls
  /\ CallProcessSensorData(LabelFrame(label))

NextLabels == \E label \in Labels : CallWithLabel(label)

SpecLabels == InitLabels /\ [][NextLabels]_vars

\* ------------------------------------------------------------------------
\* process_status_message called directly
\* ------------------------------------------------------------------------
\* payloads with no field, the fields of one group, one field of a group,
\* the fields of all groups, and every field of the wrong JSON type
AllGroupsPayload ==
  [status |-> JStr(S_ok), msg |-> JStr(S_up), motor |-> JStr(S_M1),
   speed |-> JInt(50), current |-> JInt(5), total |-> JInt(10)]
\* 2^31 - 1, 2^31, 2^32 + 5 and -2^31 - 1
WideMotorFrame == With(MotorFrame, "speed", JInt64(32768, 0))
WideCalibFrame ==
  [type |-> JStr(T_calib_progress), current |-> JInt64(65536, 5), total |-> JInt64(-32769, 65535)]
StatusPayloads ==
  {EmptyObj, StatusFrame, MotorFrame, CalibFrame, AllGroupsPayload,
   With(MotorFrame, "speed", JInt(2147483647)), WideMotorFrame, WideCalibFrame,
   [status |-> JStr(S_ok)], [speed |-> JInt(50)], [total |-> JInt(10)],
   [status |-> JInt(5), msg |-> JNull, motor |-> JInt(1),
    speed |-> JStr(<<"5">>), current |-> JFloat(5), total |-> JNull]}
StatusTypes == {T_status, T_motor, T_calib_progress, T_foo}

InitStatus ==
  /\ dp = DataProcessor_new(WindowSize)
  /\ dpIn = <<>> /\ dpOut = <<>>
  /\ IngestIdle /\ BusIdle /\ ObserversIdle /\ ProcIdle

CallProcessStatusMessage(json_value, msg_type) ==
  /\ Len(dpIn) < MaxDirectCalls
  /\ dpIn' = Append(dpIn, [json_value |-> json_value, msg_type |-> msg_type])
  /\ dpOut' = Append(dpOut, process_status_message(json_value, msg_type))
  /\ UNCHANGED <<dp, ingestVars, busVars, observerVars, procVars>>

NextStatus ==
  \E json_value \in StatusPayloads : \E msg_type \in StatusTypes :
    CallProcessStatusMessage(json_value, msg_type)

SpecStatus == InitStatus /\ [][NextStatus]_vars

\* ------------------------------------------------------------------------
\* Claims about the DataProcessor
\* ------------------------------------------------------------------------
Min(a, b) == IF a < b THEN a ELSE b

\* the calls among the first i that returned a reading, in call order
RECURSIVE AcceptedCalls(_)
AcceptedCalls(i) ==
  IF i = 0 THEN <<>>
  ELSE IF IsSome(dpOut[i]) THEN Append(AcceptedCalls(i - 1), i) ELSE AcceptedCalls(i - 1)

RECURSIVE RawSum(_, _, _, _)
RawSum(calls, from, to, ch) ==
  IF from > to THEN 0 ELSE dpIn[calls[from]][ch].n + RawSum(calls, from + 1, to, ch)

\* C1: after the n-th accepted frame every channel of the returned reading is
\* the arithmetic mean of the last min(W, n) raw values of that channel
C1_MovingAverageIsWindowMean ==
  \A i \in 1..Len(dpOut) :
    IsSome(dpOut[i]) =>
      LET calls == AcceptedCalls(i)
          n == Len(calls)
          k == Min(dp.window_size, n)
      IN \A ch \in ChannelSet :
           Unwrap(dpOut[i])[ch][1] * k = Unwrap(dpOut[i])[ch][2] * RawSum(calls, n - k + 1, n, ch)

\* W = 3 and co_m fed 2, 4, 6, 8 returned 2, 3, 4, 6
C1_Witness ==
  /\ dp.window_size = 3
  /\ Len(dpOut) = 4
  /\ \A i \in 1..4 : IsSome(dpOut[i]) /\ dpIn[i]["co_m"].n = 2 * i
  /\ [i \in 1..4 |-> Unwrap(dpOut[i]).co_m] = <<F32(2, 1), F32(3, 1), F32(4, 1), F32(6, 1)>>


\* C7: a data frame with a sample, the seven channels and an integer
\* timestamp is accepted whether the timestamp is under `timestamp` or under
\* `ts`; the reading carries the canonical label and, when it is the first of
\* the processor, the raw channel values
C7_TimestampOrTsAccepted ==
  \A i \in 1..Len(dpOut) :
    dpIn[i] \in ValidFrames \cup {TsFrame} =>
      /\ IsSome(dpOut[i])
      /\ Unwrap(dpOut[i]).sample = S_Daun_Kari
      /\ AcceptedCalls(i) = <<i>> =>
           \A ch \in ChannelSet : Unwrap(dpOut[i])[ch] = F32(dpIn[i][ch].n, 1)

\* C20: the reading returned for an accepted data frame has the frame's
\* timestamp, the normalized form of the frame's label, the seven channels
\* and nothing else
C20_TimestampAndLabelPassThrough ==
  \A i \in 1..Len(dpOut) :
    IsSome(dpOut[i]) =>
      /\ Unwrap(dpOut[i]).timestamp = dpIn[i]["timestamp"].n
      /\ Unwrap(dpOut[i]).sample = normalize_sample_name(dpIn[i]["sample"].s)
      /\ DOMAIN Unwrap(dpOut[i]) = ChannelSet \cup {"timestamp", "sample"}

\* the frame with the label "x" was accepted after another frame: its
\* reading has its timestamp and the label "X", and its co_m was smoothed
C20_Witness ==
  \E i \in 2..Len(dpOut) :
    /\ dpIn[i] = FrameX /\ IsSome(dpOut[i]) /\ IsSome(dpOut[i - 1])
    /\ Unwrap(dpOut[i]).timestamp = 1002
    /\ Unwrap(dpOut[i]).sample = <<"X">>
    /\ Unwrap(dpOut[i]).co_m # F32(FrameX["co_m"].n, 1)

\* C21: with a window W >= 1 every channel buffer holds at most W values,
\* all seven hold min(W, number of accepted readings) values, and each holds
\* the raw values of its channel of the last accepted readings, oldest first
C21_BuffersHoldLastRawValues ==
  dp.window_size >= 1 =>
    LET calls == AcceptedCalls(Len(dpOut))
        n == Len(calls)
        k == Min(dp.window_size, n)
    IN \A ch \in ChannelSet :
         /\ Len(dp.buffers[ch]) <= dp.window_size
         /\ Len(dp.buffers[ch]) = k
         /\ dp.buffers[ch] = [j \in 1..k |-> F32(dpIn[calls[n - k + j]][ch].n, 1)]

\* W = 2, three frames accepted and one rejected: the first accepted value
\* has been evicted and the two later ones are left in arrival order
C21_Witness ==
  /\ dp.window_size = 2
  /\ Len(dpOut) = 4
  /\ Len(AcceptedCalls(4)) = 3
  /\ LET calls == AcceptedCalls(4) IN
       /\ dpIn[calls[1]]["co_m"].n # dpIn[calls[2]]["co_m"].n
       /\ dpIn[calls[2]]["co_m"].n # dpIn[calls[3]]["co_m"].n
       /\ dp.buffers["co_m"] = <<F32(dpIn[calls[2]]["co_m"].n, 1),
                                 F32(dpIn[calls[3]]["co_m"].n, 1)>>

\* ------------------------------------------------------------------------
\* Claims about the sample label
\* ------------------------------------------------------------------------
\* the canonical name of the known sample with the short name alias
CanonicalName(alias) == S_Daun \o <<" ">> \o CapitalizeWord(alias)

\* C15: normalizing a normalized label gives the same label, for every
\* label; and every case variant of a known short or long name is normalized
\* to the canonical long name
C15_NormalizeIdempotent ==
  \A i \in 1..Len(dpOut) :
    IsSome(dpOut[i]) =>
      LET label == dpIn[i]["sample"].s
          out == Unwrap(dpOut[i]).sample
      IN /\ normalize_sample_name(out) = out
         /\ \A alias \in Aliases :
              label \in CaseVariants(alias) => out = CanonicalName(alias)

\* ------------------------------------------------------------------------
\* Claims about the status messages
\* ------------------------------------------------------------------------
StatusGroup == {"status", "message"}
MotorGroup == {"motor", "speed"}
CalibGroup == {"current", "total"}
FieldGroups == {StatusGroup, MotorGroup, CalibGroup}
\* the group of fields that belongs to a discriminator; none for others
GroupOf(msg_type) ==
  IF msg_type = T_status THEN StatusGroup
  ELSE IF msg_type = T_motor THEN MotorGroup
  ELSE IF msg_type = T_calib_progress THEN CalibGroup
  ELSE {}
\* the payload carries the field under its key with the JSON type it has
Carries(json_value, field) ==
  LET key == IF field = "message" THEN "msg" ELSE field IN
    /\ key \in DOMAIN json_value
    /\ json_value[key].k = (IF field \in {"status", "message", "motor"} THEN "string" ELSE "int")
\* some field of the group is present in the StatusMessage
Populated(status_msg, group) == \E field \in group : IsSome(status_msg[field])

IntOfValue(v) == IF "hi" \in DOMAIN v THEN <<v.hi, v.lo>> ELSE <<v.n \div Pow16, v.n % Pow16>>
IntOfI32(n) == <<n \div Pow16, n % Pow16>>

\* C25: when `speed` of a motor frame, or `current` or `total` of a
\* calib_progress frame, is a JSON integer, the field of the StatusMessage is
\* present and has the value of the frame's integer, also when that value
\* is outside the range of a signed 32-bit integer
C25_IntegerFieldKeepsValue ==
  \A i \in 1..Len(dpOut) :
    \A field \in {"speed", "current", "total"} :
      (/\ dpIn[i].msg_type \in {T_motor, T_calib_progress}
       /\ field \in GroupOf(dpIn[i].msg_type)
       /\ field \in DOMAIN dpIn[i].json_value
       /\ dpIn[i].json_value[field].k = "int")
        => /\ IsSome(dpOut[i][field])
           /\ IntOfI32(Unwrap(dpOut[i][field])) = IntOfValue(dpIn[i].json_value[field])

\* ------------------------------------------------------------------------
\* Claims about the device receiver
\* ------------------------------------------------------------------------
\* a frame carries a whole reading: the seven channels are numbers, the
\* sample is a string and `timestamp` or `ts` is a non-negative integer
WholeReading(obj) ==
  /\ \A ch \in ChannelSet : ch \in DOMAIN obj /\ obj[ch].k \in {"int", "float"}
  /\ "sample" \in DOMAIN obj /\ obj["sample"].k = "string"
  /\ \E key \in {"timestamp", "ts"} :
       key \in DOMAIN obj /\ obj[key].k = "int" /\ obj[key].n >= 0

HasType(line) ==
  line.kind = "object" /\ "type" \in DOMAIN line.obj /\ line.obj["type"].k = "string"
IsDataFrame(line) == HasType(line) /\ line.obj["type"].s = T_data
IsUnknownTypeFrame(line) ==
  HasType(line) /\ line.obj["type"].s \notin {T_data, T_status, T_motor, T_calib_progress}

\* the step is connection s handling line `lastLine'.line`
Handles(s) == nlines' = nlines + 1 /\ lastLine'.s = s

\* C6: a data frame with a field of the reading missing or of the wrong type
\* publishes nothing, and the connection that carried it goes on
C6_InvalidReadingRejected ==
  [][\A s \in Sessions :
       (Handles(s) /\ IsDataFrame(lastLine'.line) /\ ~WholeReading(lastLine'.line.obj))
         => log' = log /\ arduino'[s] = "running"]_vars

\* an invalid data frame was handled, nothing was published, and the same
\* connection can handle a frame next
C6_Witness ==
  /\ lastLine.s \in Sessions
  /\ IsDataFrame(lastLine.line) /\ ~WholeReading(lastLine.line.obj)
  /\ log = <<>>
  /\ ENABLED HandleArduinoLine(lastLine.s, ObjectLine(StatusFrame))

\* C10: a parsed frame whose type is none of data, status, motor,
\* calib_progress publishes nothing, and the connection goes on
C10_UnknownTypeIgnored ==
  [][\A s \in Sessions :
       (Handles(s) /\ IsUnknownTypeFrame(lastLine'.line))
         => log' = log /\ arduino'[s] = "running"]_vars

\* a frame of type "foo" was handled after a published reading, nothing more
\* was published, and the same connection can handle a frame next
C10_Witness ==
  /\ lastLine.s \in Sessions
  /\ IsUnknownTypeFrame(lastLine.line) /\ lastLine.line.obj["type"].s = T_foo
  /\ Len(log) = 1 /\ nlines = 2
  /\ ENABLED HandleArduinoLine(lastLine.s, ObjectLine(StatusFrame))

\* a non-empty line that is no JSON document, or a document without a
\* string `type`
IsMalformedFrame(line) == line.kind # "empty" /\ ~HasType(line)

\* C11: for a non-empty line that is no valid JSON or has no string `type`,
\* parse_arduino_json returns an error, nothing is published, the connection
\* stays open and its processor is as before, ready for the next line
C11_MalformedFrameSkipped ==
  [][\A s \in Sessions :
       (Handles(s) /\ IsMalformedFrame(lastLine'.line))
         => /\ ~IsSome(parse_arduino_json(lastLine'.line))
            /\ log' = log
            /\ arduino'[s] = "running"
            /\ processor'[s] = processor[s]]_vars

\* after a published reading a frame whose `type` is a number was handled,
\* nothing more was published, and the same connection can handle a frame
\* next
C11_Witness ==
  /\ lastLine.s \in Sessions
  /\ lastLine.line = ObjectLine(With(Frame4, "type", JInt(1)))
  /\ Len(log) = 1 /\ nlines = 2
  /\ arduino[lastLine.s] = "running"
  /\ ENABLED HandleArduinoLine(lastLine.s, ObjectLine(StatusFrame))

\* the code accepts the data frame: process_sensor_data returns a reading
IsAcceptedDataFrame(line) ==
  IsDataFrame(line) /\ IsSome(SensorData_from_value(line.obj))
IsStatusKindFrame(line) ==
  HasType(line) /\ line.obj["type"].s \in {T_status, T_motor, T_calib_progress}
\* the step publishes exactly one event, after everything published before
PublishesOne == Len(log') = Len(log) + 1 /\ SubSeq(log', 1, Len(log)) = log

\* C22: a connection publishes, line by line in arrival order, exactly one
\* SensorData for an accepted data frame, exactly one Status for a status,
\* motor or calib_progress frame and nothing for any other line; nothing is
\* published but by the handling of a line
C22_OneEventPerFrameInOrder ==
  [][/\ log' # log => \E s \in Sessions : Handles(s)
     /\ \A s \in Sessions :
          Handles(s) =>
            LET line == lastLine'.line IN
            IF IsAcceptedDataFrame(line)
            THEN /\ PublishesOne
                 /\ log'[Len(log')].tag = "SensorData"
                 /\ Unwrap(log'[Len(log')].data).timestamp = line.obj["timestamp"].n
            ELSE IF IsStatusKindFrame(line)
            THEN /\ PublishesOne
                 /\ log'[Len(log')].tag = "Status"
                 /\ Unwrap(log'[Len(log')].status).msg_type = line.obj["type"].s
            ELSE log' = log]_vars

\* three lines were handled: the reading of Frame4, then the event of the
\* motor frame, then a line that is no JSON, which published nothing
C22_Witness ==
  /\ nlines = 3 /\ Len(log) = 2
  /\ lastLine.line = GarbageLine
  /\ log[1].tag = "SensorData" /\ log[2].tag = "Status"
  /\ Unwrap(log[1].data).timestamp = Frame4["timestamp"].n
  /\ Unwrap(log[2].status).msg_type = T_motor

\* the step publishes a SensorData
PublishesReading == Len(log') = Len(log) + 1 /\ log'[Len(log')].tag = "SensorData"

\* the last min(WindowSize, n) of the n raw values of channel ch that
\* connection s has accepted once it accepts the frame obj
OwnWindow(s, ch, obj) ==
  LET own == Append([i \in 1..Len(processor[s].buffers[ch]) |->
                       processor[s].buffers[ch][i][1]],
                    obj[ch].n)
      k == Min(WindowSize, Len(own))
  IN SubSeq(own, Len(own) - k + 1, Len(own))

RECURSIVE SeqSum(_)
SeqSum(seq) == IF seq = <<>> THEN 0 ELSE Head(seq) + SeqSum(Tail(seq))

\* C14: the smoothing state of a connection is its own: it starts empty
\* when the connection is accepted, only steps of that connection change it,
\* and a reading the connection publishes is the mean over its own last
\* values, so its first reading carries the raw values of its frame
C14_SmoothingStateIsPerSession ==
  [][\A s \in Sessions :
       /\ (arduino[s] = "none" /\ arduino'[s] = "running")
            => \A ch \in ChannelSet : processor'[s].buffers[ch] = <<>>
       /\ processor'[s] # processor[s]
            => \/ arduino'[s] # arduino[s]
               \/ Handles(s)
       /\ (Handles(s) /\ PublishesReading)
            => \A ch \in ChannelSet :
                 LET out == Unwrap(log'[Len(log')].data)[ch]
                     own == OwnWindow(s, ch, lastLine'.line.obj)
                 IN /\ out[1] * Len(own) = out[2] * SeqSum(own)
                    /\ processor[s].buffers[ch] = <<>>
                         => out = F32(lastLine'.line.obj[ch].n, 1)]_vars

\* a first connection published the reading of Frame4 and ended; a second
\* connection then published the reading of FrameX with FrameX's raw values
C14_Witness ==
  /\ arduino[1] = "done" /\ arduino[2] = "running"
  /\ nlines = 2 /\ Len(log) = 2
  /\ lastLine = [s |-> 2, line |-> ObjectLine(FrameX)]
  /\ log[1].tag = "SensorData" /\ log[2].tag = "SensorData"
  /\ \A ch \in ChannelSet :
       /\ Unwrap(log[1].data)[ch] = F32(Frame4[ch].n, 1)
       /\ Unwrap(log[2].data)[ch] = F32(FrameX[ch].n, 1)

\* C23: a line that publishes no SensorData (an empty line, a malformed
\* frame, a rejected data frame, a status, motor or calib_progress frame, a
\* frame of unknown type) leaves the processor of its connection, window and
\* seven buffers, as it was: the averages of later readings, which are
\* computed from the buffers, are those of the accepted readings alone
C23_OtherLinesLeaveBuffers ==
  [][\A s \in Sessions :
       (Handles(s) /\ ~PublishesReading)
         => processor'[s] = processor[s]]_vars

\* after the reading of Frame4 a data frame without `no2` was handled: it
\* published nothing and the buffers still hold the values of Frame4 alone
C23_Witness ==
  /\ nlines = 2 /\ Len(log) = 1
  /\ lastLine = [s |-> 1, line |-> ObjectLine(Without(Frame4, "no2"))]
  /\ log[1].tag = "SensorData"
  /\ \A ch \in ChannelSet : processor[1].buffers[ch] = <<F32(Frame4[ch].n, 1)>>
  /\ ENABLED HandleArduinoLine(1, ObjectLine(StatusFrame))

Recv(o) == received'[o] # received[o] \/ lagged'[o] # lagged[o]

\* C3: what an observer's recv returns depends on its own backlog only:
\* it loses messages only when its own backlog exceeds the capacity, and
\* otherwise it returns the next message in send order
C3_LagIsPerObserver ==
  [][\A o \in Observers :
       Recv(o) =>
         IF lagged'[o]
         THEN Len(log) - rx[o] > BusCapacity
         ELSE received'[o] = Append(received[o], rx[o] + 1)]_vars

\* two observers subscribed at the same time; one never received and lost
\* messages, the other received every message, more than the capacity
C3_Witness ==
  \E o1, o2 \in Observers :
    /\ o1 # o2 /\ sock[o1] # "none" /\ sock[o2] # "none"
    /\ subAt[o1] = subAt[o2]
    /\ lagged[o2] /\ received[o2] = <<>>
    /\ ~lagged[o1]
    /\ received[o1] = [i \in 1..(Len(log) - subAt[o1]) |-> subAt[o1] + i]
    /\ Len(received[o1]) > BusCapacity

\* C4: an observer that fell more than the capacity behind is not ended by
\* it: while its connection is open its write task and its session run on
C4_LagDoesNotEndSession ==
  \A o \in Observers :
    (lagged[o] /\ sock[o] = "open") => (writer[o] = "running" /\ session[o] = "running")

\* C5: a device connection and an observer's read task can always publish,
\* whatever the receivers' state, and are still running afterwards
C5_PublishNeverBlocks ==
  /\ \A s \in Sessions :
       (proc = "running" /\ arduino[s] = "running" /\ nlines < MaxLines /\ Len(log) < MaxPub)
         => ENABLED (/\ HandleArduinoLine(s, ObjectLine(StatusFrame))
                     /\ Len(log') = Len(log) + 1
                     /\ arduino'[s] = "running")
  /\ \A o \in Observers :
       (proc = "running" /\ reader[o] = "running" /\ sock[o] = "open" /\ Len(log) < MaxPub)
         => ENABLED (/\ ReaderLine(o, S_go \o <<"\n">>)
                     /\ Len(log') = Len(log) + 1
                     /\ reader'[o] = "running")

\* a receiver is more than the capacity behind while a device connection and
\* an observer's read task are about to publish
C5_Witness ==
  \E o \in Observers : \E s \in Sessions :
    /\ rx[o] # NoRx /\ Len(log) - rx[o] > BusCapacity
    /\ arduino[s] = "running" /\ nlines < MaxLines /\ Len(log) < MaxPub
    /\ reader[o] = "running" /\ sock[o] = "open"

\* the step is the read task of observer o publishing a Command
ReaderPublishes(o) == \E line \in ObserverLines : ReaderLine(o, line) /\ log' # log

\* C8: once an observer's read task has ended its write task receives and
\* writes nothing more, and once its write task has ended its read task
\* publishes nothing more
C8_EitherEndTearsDown ==
  [][\A o \in Observers :
       /\ reader[o] = "done" => (received'[o] = received[o] /\ wire'[o] = wire[o])
       /\ writer[o] = "done" => ~ReaderPublishes(o)]_vars

\* C9: once both listeners are bound the process never ends
C9_ProcessNeverEnds == proc = "running"

\* the lines the first n messages received by observer o call for: one
\* DATA line per SensorData, one STATUS line per Status, none per Command
RECURSIVE LinesFor(_, _)
LinesFor(o, n) ==
  IF n = 0 THEN <<>>
  ELSE LET msg == log[received[o][n]] IN
       IF msg.tag = "SensorData"
       THEN Append(LinesFor(o, n - 1), [prefix |-> "DATA", msg |-> msg])
       ELSE IF msg.tag = "Status"
       THEN Append(LinesFor(o, n - 1), [prefix |-> "STATUS", msg |-> msg])
       ELSE LinesFor(o, n - 1)

\* the write task of observer o ended on a failed write
WriteFailed(o) == writer[o] = "done" /\ ~lagged[o]

\* C12: what is written to an observer is, in the order of reception, one
\* DATA line per SensorData received, one STATUS line per Status received and
\* nothing per Command received; the one message whose write failed, which
\* ends the write task, left no line
C12_OneLinePerEvent ==
  \A o \in Observers :
    LET lines == LinesFor(o, Len(received[o])) IN
      IF WriteFailed(o)
      THEN lines # <<>> /\ wire[o] = SubSeq(lines, 1, Len(lines) - 1)
      ELSE wire[o] = lines

\* an observer received a SensorData, a Command and a Status and was written
\* a DATA line and then a STATUS line
C12_Witness ==
  \E o \in Observers :
    /\ Len(received[o]) = 3
    /\ [i \in 1..3 |-> log[received[o][i]].tag] = <<"SensorData", "Command", "Status">>
    /\ [i \in 1..Len(wire[o]) |-> wire[o][i].prefix] = <<"DATA", "STATUS">>
    /\ wire[o][1].msg = log[received[o][1]] /\ wire[o][2].msg = log[received[o][3]]

\* message i was sent after observer o subscribed and is a SensorData or a
\* Status
PublishedFor(o, i) ==
  /\ session[o] # "none" /\ subAt[o] < i /\ i <= Len(log)
  /\ log[i].tag \in {"SensorData", "Status"}
\* the line of message i has been written to observer o
WrittenTo(o, i) ==
  \E j \in 1..Len(received[o]) :
    /\ received[o][j] = i
    /\ LET n == Len(LinesFor(o, j)) IN
         n >= 1 /\ Len(wire[o]) >= n /\ wire[o][n].msg = log[i]
\* the backlog of observer o exceeded the capacity, or its connection is
\* closed or broken
Excused(o) ==
  \/ lagged[o]
  \/ rx[o] # NoRx /\ Len(log) - rx[o] > BusCapacity
  \/ sock[o] = "closed"

TrimmedText(line) ==
  LET nonWs == {i \in 1..Len(line) : line[i] \notin Whitespace} IN
    IF nonWs = {} THEN <<>>
    ELSE SubSeq(line, CHOOSE i \in nonWs : \A j \in nonWs : i <= j,
                      CHOOSE i \in nonWs : \A j \in nonWs : i >= j)

\* C13: for a line read from an observer its read task appends one Command
\* with the trimmed text to the messages sent if that text is not empty, and
\* sends nothing if it is; the read task ends when the connection is closed
\* or broken and publishes nothing afterwards
C13_ReaderPublishesCommands ==
  [][\A o \in Observers :
       /\ \A line \in ObserverLines :
            ReaderLine(o, line) =>
              /\ log' = IF TrimmedText(line) # <<>>
                        THEN Append(log, Message_Command(TrimmedText(line)))
                        ELSE log
              /\ reader'[o] = "running"
       /\ sock'[o] = "closed" => reader'[o] = "done"
       /\ reader[o] = "done" => ~ReaderPublishes(o)]_vars

\* the read task of the only observer published two Commands "go" and ended
\* when the connection was closed
C13_Witness ==
  \E o \in Observers :
    /\ reader[o] = "done" /\ sock[o] = "closed"
    /\ Len(log) = 2
    /\ \A i \in 1..2 : log[i] = Message_Command(S_go)
    /\ \A q \in Observers : q # o => session[q] = "none"

\* ------------------------------------------------------------------------
\* Claims about connections that end
\* ------------------------------------------------------------------------
\* the step ends device connection s: its line reader returned None or Err
DeviceConnectionEnds(s) == arduino[s] = "running" /\ arduino'[s] = "done"
\* the step ends the connection of observer o, or a write to it fails
ObserverConnectionEnds(o) ==
  \/ sock[o] = "open" /\ sock'[o] = "closed"
  \/ sock[o] = "closed" /\ writer[o] = "running" /\ writer'[o] = "done"
\* the step leaves device connection s and observer o as they are
DeviceUntouched(s) == arduino'[s] = arduino[s] /\ processor'[s] = processor[s]
ObserverUntouched(o) ==
  /\ session'[o] = session[o] /\ reader'[o] = reader[o] /\ writer'[o] = writer[o]
  /\ sock'[o] = sock[o] /\ rx'[o] = rx[o]

\* the end of a connection touches that connection only
OnlyThatSessionEnds ==
  /\ \A s \in Sessions :
       DeviceConnectionEnds(s) =>
         /\ \A t \in Sessions \ {s} : DeviceUntouched(t)
         /\ \A o \in Observers : ObserverUntouched(o)
         /\ log' = log /\ proc' = "running"
  /\ \A o \in Observers :
       ObserverConnectionEnds(o) =>
         /\ \A q \in Observers \ {o} : ObserverUntouched(q)
         /\ \A s \in Sessions : DeviceUntouched(s)
         /\ log' = log /\ proc' = "running"

\* whatever connections have ended, a running device connection and a
\* running read task can publish, and each listener accepts its next
\* connection
OthersGoOn ==
  /\ proc = "running"
  /\ \A s \in Sessions :
       arduino[s] = "running" =>
         ENABLED (HandleArduinoLine(s, ObjectLine(StatusFrame)) /\ Len(log') = Len(log) + 1)
  /\ \A o \in Observers :
       (reader[o] = "running" /\ sock[o] = "open") =>
         ENABLED (ReaderLine(o, S_go \o <<"\n">>) /\ Len(log') = Len(log) + 1)
  /\ \A s \in Sessions :
       (arduino[s] = "none" /\ \A t \in Sessions : t < s => arduino[t] # "none")
         => ENABLED ArduinoAccept(s)
  /\ \A o \in Observers :
       (session[o] = "none" /\ \A q \in Observers : q < o => session[q] # "none")
         => ENABLED RelayAccept(o)

\* C17: the end or failure of one connection ends only that connection's
\* session: the other device connections and observers are untouched, the
\* channel takes further messages and both listeners accept further
\* connections
C17_ConnectionErrorIsLocal == []OthersGoOn /\ [][OnlyThatSessionEnds]_vars

\* one device connection has ended and one observer has closed its
\* connection and had a write fail, while another device connection and
\* another observer are running
C17_Witness ==
  \E s, t \in Sessions : \E o, q \in Observers :
    /\ arduino[s] = "done" /\ arduino[t] = "running"
    /\ sock[o] = "closed" /\ writer[o] = "done" /\ ~lagged[o]
    /\ session[q] = "running" /\ reader[q] = "running" /\ writer[q] = "running"
    /\ sock[q] = "open"

\* ------------------------------------------------------------------------
\* Claims about the relay's accept loop
\* ------------------------------------------------------------------------
\* the relay's listener can accept the connection of observer o: it
\* subscribes it at the tail of the channel and starts its two tasks
CanAccept(o) ==
  ENABLED (/\ RelayAccept(o)
           /\ rx'[o] = Len(log)
           /\ session'[o] = "running" /\ reader'[o] = "running" /\ writer'[o] = "running")

\* C18: an accept error of the relay's listener changes nothing but the
\* count of errors, and after any number of them the next connection is
\* accepted, subscribed and given its session
C18_RelayAcceptErrorGoesOn ==
  /\ [](/\ proc = "running"
        /\ \A o \in Observers :
             (session[o] = "none" /\ \A q \in Observers : q < o => session[q] # "none")
               => CanAccept(o))
  /\ [][acceptErrs' # acceptErrs =>
          /\ proc' = proc
          /\ UNCHANGED <<dpVars, ingestVars, busVars, observerVars>>]_vars

\* after as many accept errors as the model allows one observer is running
\* and the next connection can be accepted
C18_Witness ==
  /\ acceptErrs = MaxAcceptErrs
  /\ session[1] = "running" /\ session[2] = "none"
  /\ CanAccept(2)

=============================================================================
